---------------------------- MODULE Spec2Model ----------------------------
(***************************************************************************)
(* mcp-sumologic: the time-range resolver (parseTimeToken, parseTimeRange) *)
(* and the PII masker (isMaskingEnabled, maskSensitiveInfo).               *)
(*                                                                         *)
(* A string is a sequence of one-character strings, so that the regular    *)
(* expressions, toLowerCase, parseInt, format and the textual comparison   *)
(* of the source act on characters as they do in the code.                 *)
(***************************************************************************)
EXTENDS Integers, Sequences, FiniteSets, TLC

VARIABLES
    now,            \* moment() read at the start of parseTimeRange
    tz,             \* the process's UTC offset in minutes (moment's local mode)
    legacy,         \* what the engine's Date constructor makes of a non-ISO string
    from,           \* range.from as given by the caller
    to,             \* range.to as given by the caller
    resolvedFrom,   \* parseTimeToken(from, now)
    resolvedTo,     \* parseTimeToken(to, now)
    finalFrom,      \* the returned from
    finalTo,        \* the returned to
    windowRule,     \* TRUE when the branch at index.ts:168 was taken
    called,         \* where the call of parseTimeRange stands: idle, requested, returned
    env,            \* process.env.MASK_SENSITIVE_INFO
    v,              \* what isMaskingEnabled read from env in the current call
    enabled,        \* what isMaskingEnabled returned in the current call
    text,           \* the argument of maskSensitiveInfo
    afterEmail,     \* maskedText after the email pass
    afterCards,     \* maskedText after the credit card passes
    afterPhones,    \* maskedText after the first run of the phone patterns
    afterLoop,      \* maskedText when the while loop has ended
    iterations,     \* how many times the body of the while loop ran
    afterAddresses, \* maskedText after the address passes
    maskedText,     \* the string maskSensitiveInfo returned
    phoneCallbacks, \* the calls of the phone patterns' replace callback
    prior,          \* the call before the current one: its v, text and result
    masking,        \* where the call of maskSensitiveInfo stands: idle, called, looping, returned
    previousMaskedText, \* previousMaskedText of the while loop
    request,        \* { query, from, to } as the tool handler received them
    cleanedQuery,   \* the query without its new lines
    parsedRange,    \* parsed: what parseTimeRange returned to the handler
    results,        \* what the awaited search resolved to
    response,       \* the text of the content the handler returned
    calls,          \* the functions the handler has called, in order
    handling        \* where the handler stands: idle, received, parsed, searched, responded

timeVars == <<now, tz, legacy, from, to, resolvedFrom, resolvedTo, finalFrom,
              finalTo, windowRule, called>>

maskVars == <<env, v, enabled, text, afterEmail, afterCards, afterPhones, afterLoop,
              iterations, afterAddresses, maskedText, phoneCallbacks, prior, masking,
              previousMaskedText>>

handlerVars == <<request, cleanedQuery, parsedRange, results, response, calls, handling>>

vars == <<timeVars, maskVars, handlerVars>>

-----------------------------------------------------------------------------
(* Characters and strings *)

\* JavaScript's undefined, told apart from every string (the empty one too)
UNDEFINED == <<"undefined">>

DigitSeq == <<"0", "1", "2", "3", "4", "5", "6", "7", "8", "9">>
Digits == {"0", "1", "2", "3", "4", "5", "6", "7", "8", "9"}

UpperSeq == <<"A", "B", "C", "D", "E", "F", "G", "H", "I", "J", "K", "L", "M",
              "N", "O", "P", "Q", "R", "S", "T", "U", "V", "W", "X", "Y", "Z">>
LowerSeq == <<"a", "b", "c", "d", "e", "f", "g", "h", "i", "j", "k", "l", "m",
              "n", "o", "p", "q", "r", "s", "t", "u", "v", "w", "x", "y", "z">>
Upper == {UpperSeq[i] : i \in 1..26}
Lower == {LowerSeq[i] : i \in 1..26}

\* The printable ASCII characters in code-unit order, from 32 (space) to 126
\* (the grave accent, 96, is spelled out: no text of the model holds it)
Ascii == <<" ", "!", "\"", "#", "$", "%", "&", "'", "(", ")", "*", "+", ",",
           "-", ".", "/", "0", "1", "2", "3", "4", "5", "6", "7", "8", "9",
           ":", ";", "<", "=", ">", "?", "@",
           "A", "B", "C", "D", "E", "F", "G", "H", "I", "J", "K", "L", "M",
           "N", "O", "P", "Q", "R", "S", "T", "U", "V", "W", "X", "Y", "Z",
           "[", "\\", "]", "^", "_", "grave",
           "a", "b", "c", "d", "e", "f", "g", "h", "i", "j", "k", "l", "m",
           "n", "o", "p", "q", "r", "s", "t", "u", "v", "w", "x", "y", "z",
           "{", "|", "}", "~">>

\* The UTF-16 code unit of a character ("\n" is 10)
CharCode(c) == IF c = "\n" THEN 10 ELSE 31 + (CHOOSE i \in 1..95 : Ascii[i] = c)

ToLowerChar(c) == IF c \in Upper THEN LowerSeq[CHOOSE i \in 1..26 : UpperSeq[i] = c] ELSE c

\* String.prototype.toLowerCase
ToLowerCase(s) == [i \in 1..Len(s) |-> ToLowerChar(s[i])]

\* a > b on two strings: by code units, a proper prefix being the smaller
RECURSIVE StrGreaterFrom(_, _, _)
StrGreaterFrom(a, b, i) ==
    IF i > Len(a) THEN FALSE
    ELSE IF i > Len(b) THEN TRUE
    ELSE IF a[i] = b[i] THEN StrGreaterFrom(a, b, i + 1)
    ELSE CharCode(a[i]) > CharCode(b[i])

StrGreater(a, b) == StrGreaterFrom(a, b, 1)

\* a value of `string | undefined` is truthy when it is a non-empty string
Truthy(s) == s # UNDEFINED /\ s # <<>>

DigitVal(c) == (CHOOSE i \in 1..10 : DigitSeq[i] = c) - 1
DigitChar(n) == DigitSeq[n + 1]

\* parseInt(digits, 10) of a non-empty run of decimal digits
RECURSIVE ParseInt(_)
ParseInt(ds) ==
    IF ds = <<>> THEN 0
    ELSE (ParseInt(SubSeq(ds, 1, Len(ds) - 1)) * 10) + DigitVal(ds[Len(ds)])

RECURSIVE NatToChars(_)
NatToChars(n) ==
    IF n < 10 THEN <<DigitChar(n)>>
    ELSE NatToChars(n \div 10) \o <<DigitChar(n % 10)>>

\* moment's zeroFill(number, targetLength): the sign, then the digits padded with zeros
ZeroFill(n, width) ==
    LET a == IF n < 0 THEN -n ELSE n
        ds == NatToChars(a)
        pad == [i \in 1..(IF width > Len(ds) THEN width - Len(ds) ELSE 0) |-> "0"]
    IN  (IF n < 0 THEN <<"-">> ELSE <<>>) \o pad \o ds

-----------------------------------------------------------------------------
(* Instants: a moment is a Date, valid or not; a valid one is a number of  *)
(* whole days since 1970-01-01 UTC and of seconds in that day. format()    *)
(* prints no milliseconds, and every offset of the code is whole seconds.  *)

SecondsPerDay == 86400

\* ECMAScript's time value range: 100,000,000 days either side of the epoch
MaxDateDays == 100000000

InvalidMoment == [valid |-> FALSE, d |-> 0, s |-> 0]

InRange(d, s) == /\ d >= -MaxDateDays
                 /\ \/ d < MaxDateDays
                    \/ d = MaxDateDays /\ s = 0

\* TimeClip: a time value out of range is NaN, an invalid Date
MakeMoment(d, s) ==
    LET dd == d + (s \div SecondsPerDay)
        ss == s % SecondsPerDay
    IN  IF InRange(dd, ss) THEN [valid |-> TRUE, d |-> dd, s |-> ss] ELSE InvalidMoment

\* days since the epoch of a proleptic Gregorian date (ECMAScript's MakeDay)
DaysFromCivil(y, m, d) ==
    LET yy  == IF m <= 2 THEN y - 1 ELSE y
        era == yy \div 400
        yoe == yy - era * 400
        mp  == IF m > 2 THEN m - 3 ELSE m + 9
        doy == ((153 * mp + 2) \div 5) + d - 1
        doe == yoe * 365 + (yoe \div 4) - (yoe \div 100) + doy
    IN  era * 146097 + doe - 719468

\* the proleptic Gregorian date of a day number (ECMAScript's YearFromTime,
\* MonthFromTime, DateFromTime), computed era by era of 400 years; each step
\* hands its values to the next
CivilOfMonth(y, m, d) == [y |-> y + (IF m <= 2 THEN 1 ELSE 0), m |-> m, d |-> d]

CivilOfMarchMonth(y, doy, mp) ==
    CivilOfMonth(y, IF mp < 10 THEN mp + 3 ELSE mp - 9, doy - ((153 * mp + 2) \div 5) + 1)

CivilOfDayOfYear(y, doy) == CivilOfMarchMonth(y, doy, (5 * doy + 2) \div 153)

CivilOfYearOfEra(era, doe, yoe) ==
    CivilOfDayOfYear(yoe + era * 400, doe - (365 * yoe + (yoe \div 4) - (yoe \div 100)))

CivilOfDayOfEra(era, doe) ==
    CivilOfYearOfEra(era, doe,
        (doe - (doe \div 1460) + (doe \div 36524) - (doe \div 146096)) \div 365)

CivilFromDays(z0) == CivilOfDayOfEra((z0 + 719468) \div 146097, (z0 + 719468) % 146097)

IsLeap(y) == ((y % 4) = 0 /\ (y % 100) # 0) \/ (y % 400) = 0

DaysInMonth(y, m) ==
    IF m = 2 THEN (IF IsLeap(y) THEN 29 ELSE 28)
    ELSE IF m \in {4, 6, 9, 11} THEN 30 ELSE 31

\* Supported units and their moment.js mappings
UNIT_MAP == [s |-> "seconds", m |-> "minutes", h |-> "hours", d |-> "days", w |-> "weeks"]

\* moment(now).subtract(amount, unit): weeks and days move the calendar date
\* (setDate), the smaller units the time value (setTime); with a fixed UTC
\* offset both are a subtraction of seconds. An amount past the Date range
\* leaves an invalid Date. The comparison with MaxDateDays first keeps the
\* products within the 32-bit integers of the model checker.
Subtract(m, amount, unit) ==
    IF ~m.valid THEN m
    ELSE CASE unit = "seconds" ->
                MakeMoment(m.d - (amount \div 86400), m.s - (amount % 86400))
           [] unit = "minutes" ->
                MakeMoment(m.d - (amount \div 1440), m.s - ((amount % 1440) * 60))
           [] unit = "hours" ->
                MakeMoment(m.d - (amount \div 24), m.s - ((amount % 24) * 3600))
           [] unit = "days" ->
                MakeMoment(m.d - amount, m.s)
           [] unit = "weeks" ->
                IF amount > MaxDateDays THEN InvalidMoment
                ELSE MakeMoment(m.d - amount * 7, m.s)

Pad2(n) == <<DigitChar(n \div 10), DigitChar(n % 10)>>

\* moment's "Z" token: the sign and hh:mm of the UTC offset
OffsetChars(off) ==
    LET a == IF off < 0 THEN -off ELSE off
    IN  <<(IF off < 0 THEN "-" ELSE "+")>> \o Pad2(a \div 60) \o <<":">> \o Pad2(a % 60)

InvalidDateText == <<"I", "n", "v", "a", "l", "i", "d", " ", "d", "a", "t", "e">>

FormatFields(c, sd, off) ==
    ZeroFill(c.y, 4) \o <<"-">> \o Pad2(c.m) \o <<"-">> \o Pad2(c.d) \o <<"T">>
      \o Pad2(sd \div 3600) \o <<":">> \o Pad2((sd % 3600) \div 60) \o <<":">>
      \o Pad2(sd % 60) \o OffsetChars(off)

FormatLocal(ld, sd, off) == FormatFields(CivilFromDays(ld), sd, off)

\* moment#format() with the default format YYYY-MM-DDTHH:mm:ssZ in local mode:
\* an invalid moment prints the locale's "Invalid date"; YYYY is
\* zeroFill(year, 4), so a negative year prints "-" and its digits and a year
\* past 9999 prints five digits
Format(m, off) ==
    IF ~m.valid THEN InvalidDateText
    ELSE FormatLocal(m.d + ((m.s + off * 60) \div SecondsPerDay),
                     (m.s + off * 60) % SecondsPerDay, off)

AllDigits(s, a, b) == \A i \in a..b : s[i] \in Digits

HasDigit(s) == \E i \in 1..Len(s) : s[i] \in Digits

\* RELATIVE_REGEX = /^-([0-9]+)([smhdw])$/i
RELATIVE_REGEX(token) ==
    /\ Len(token) >= 3
    /\ token[1] = "-"
    /\ AllDigits(token, 2, Len(token) - 1)
    /\ ToLowerChar(token[Len(token)]) \in {"s", "m", "h", "d", "w"}

\* match[1] and match[2] of a token that matches RELATIVE_REGEX
RelativeAmount(token) == ParseInt(SubSeq(token, 2, Len(token) - 1))
RelativeUnit(token) == UNIT_MAP[ToLowerChar(token[Len(token)])]

\* the ISO 8601 shapes of moment(string) used here: YYYY-MM-DD, then
\* optionally THH:mm:ss, then optionally Z or +hh:mm / -hh:mm
IsoDateShape(t) ==
    /\ Len(t) >= 10
    /\ AllDigits(t, 1, 4) /\ t[5] = "-" /\ AllDigits(t, 6, 7) /\ t[8] = "-"
    /\ AllDigits(t, 9, 10)

IsoTimeShape(t) ==
    /\ Len(t) >= 19
    /\ t[11] = "T" /\ AllDigits(t, 12, 13) /\ t[14] = ":" /\ AllDigits(t, 15, 16)
    /\ t[17] = ":" /\ AllDigits(t, 18, 19)

IsoOffsetShape(t) ==
    /\ Len(t) = 25
    /\ t[20] \in {"+", "-"} /\ AllDigits(t, 21, 22) /\ t[23] = ":" /\ AllDigits(t, 24, 25)

IsoShape(t) ==
    /\ IsoDateShape(t)
    /\ \/ Len(t) = 10
       \/ IsoTimeShape(t) /\ (Len(t) = 19 \/ (Len(t) = 20 /\ t[20] = "Z") \/ IsoOffsetShape(t))

Num2(t, i) == DigitVal(t[i]) * 10 + DigitVal(t[i + 1])

\* moment(token): an ISO 8601 string is read field by field (a field out of
\* range makes the moment invalid; a string without offset is local time);
\* any other string is handed to the engine's Date constructor, whose answer
\* for a string that holds a digit is the engine's (legacyDate); one without a
\* digit is no date for any engine
MomentParse(token, off, legacyDate) ==
    IF IsoShape(token)
    THEN LET y  == ParseInt(SubSeq(token, 1, 4))
             mo == Num2(token, 6)
             da == Num2(token, 9)
             hasTime == Len(token) >= 19
             h  == IF hasTime THEN Num2(token, 12) ELSE 0
             mi == IF hasTime THEN Num2(token, 15) ELSE 0
             se == IF hasTime THEN Num2(token, 18) ELSE 0
             o  == IF Len(token) = 20 THEN 0
                   ELSE IF Len(token) = 25
                        THEN (IF token[20] = "-" THEN -1 ELSE 1)
                             * (Num2(token, 21) * 60 + Num2(token, 24))
                        ELSE off
         IN  IF /\ mo \in 1..12 /\ da >= 1 /\ da <= DaysInMonth(y, mo)
                /\ h <= 23 /\ mi <= 59 /\ se <= 59
             THEN MakeMoment(DaysFromCivil(y, mo, da), h * 3600 + mi * 60 + se - o * 60)
             ELSE InvalidMoment
    ELSE IF HasDigit(token) THEN legacyDate ELSE InvalidMoment

\* parseTimeToken(token, now): the ISO string of the token, or undefined
parseTimeToken(token, nowM, off, legacyDate) ==
    IF ~Truthy(token) THEN UNDEFINED
    ELSE IF ToLowerCase(token) = <<"n", "o", "w">> THEN Format(nowM, off)
    ELSE IF RELATIVE_REGEX(token)
         THEN Format(Subtract(nowM, RelativeAmount(token), RelativeUnit(token)), off)
    ELSE LET parsed == MomentParse(token, off, legacyDate)
         IN  IF parsed.valid THEN Format(parsed, off) ELSE UNDEFINED

\* the window-length test without its !from: any from that does not resolve
\* lets a relative to become a window
WindowRuleApplies_WithoutFromTest(f, t, rf) ==
    /\ Truthy(t)
    /\ RELATIVE_REGEX(t)
    /\ ~Truthy(rf)

\* if (!from && to && to.match(RELATIVE_REGEX) && !resolvedFrom)
WindowRuleApplies(f, t, rf) ==
    /\ ~Truthy(f)
    /\ Truthy(t)
    /\ RELATIVE_REGEX(t)
    /\ ~Truthy(rf)

\* if (finalFrom && finalTo && finalFrom > finalTo): a comparison of two strings
NeedsSwap(ff, ft) == Truthy(ff) /\ Truthy(ft) /\ StrGreater(ff, ft)

\* parseTimeRange({from, to}) with moment() = nowM: the returned pair and the
\* intermediate values
parseTimeRange(f, t, nowM, off, legacyDate) ==
    LET rf  == parseTimeToken(f, nowM, off, legacyDate)
        rt  == parseTimeToken(t, nowM, off, legacyDate)
        \* If only from is relative/parsed and to missing => to = now
        ft1 == IF Truthy(rf) /\ ~Truthy(t) THEN Format(nowM, off) ELSE rt
        win == WindowRuleApplies(f, t, rf)
        ft2 == IF win THEN Format(nowM, off) ELSE ft1
        ff2 == IF win
               THEN Format(Subtract(nowM, RelativeAmount(t), RelativeUnit(t)), off)
               ELSE rf
        sw  == NeedsSwap(ff2, ft2)
    IN  [resolvedFrom |-> rf, resolvedTo |-> rt, windowRule |-> win,
         from |-> IF sw THEN ft2 ELSE ff2,
         to   |-> IF sw THEN ff2 ELSE ft2]

-----------------------------------------------------------------------------
(* Regular expressions of pii.ts, as trees, matched the way a backtracking *)
(* engine matches them: alternatives and repetitions are tried in the      *)
(* order of ECMAScript (greedy: one more first; lazy: stop first), and the *)
(* first way that lets the rest of the pattern match is the match.         *)

WordChars == Upper \cup Lower \cup Digits \cup {"_"}

\* \s
Whitespace == {" ", "\t", "\n"}

\* an unbounded repetition count
Unbounded == 9999

Cls(S) == [t |-> "class", set |-> S]
Lit(c) == [t |-> "class", set |-> {c}]
Wb == [t |-> "boundary"]
Cat(rs) == [t |-> "seq", rs |-> rs]
Alt(rs) == [t |-> "alt", rs |-> rs]
Rep(r, lo, hi) == [t |-> "rep", r |-> r, lo |-> lo, hi |-> hi, lazy |-> FALSE]
RepLazy(r, lo, hi) == [t |-> "rep", r |-> r, lo |-> lo, hi |-> hi, lazy |-> TRUE]
Opt(r) == Rep(r, 0, 1)
Plus(r) == Rep(r, 1, Unbounded)
Star(r) == Rep(r, 0, Unbounded)

\* a literal word; with the i flag each letter stands for both cases
Word(chars) == Cat([i \in 1..Len(chars) |-> Lit(chars[i])])
ToUpperChar(c) == IF c \in Lower THEN UpperSeq[CHOOSE i \in 1..26 : LowerSeq[i] = c] ELSE c
WordI(chars) == Cat([i \in 1..Len(chars) |-> Cls({ToLowerChar(chars[i]), ToUpperChar(chars[i])})])

D == Cls(Digits)
Dn(lo, hi) == Rep(D, lo, hi)

IsWordAt(s, i) == i >= 1 /\ i <= Len(s) /\ s[i] \in WordChars

\* \b before position i
AtWordBoundary(s, i) == IsWordAt(s, i - 1) # IsWordAt(s, i)

\* one repetition fewer
Fewer(r) == [r EXCEPT !.lo = IF r.lo > 0 THEN r.lo - 1 ELSE 0,
                      !.hi = IF r.hi = Unbounded THEN Unbounded ELSE r.hi - 1]

Range(q) == {q[n] : n \in 1..Len(q)}

\* a list given by a rule, as the list of its values
AsList(q) == q \o <<>>

\* the lists qs of positions joined in order, each position kept where it
\* comes first: what a backtracking engine tries, one list after the other
FirstList(qs, p) == CHOOSE n \in 1..Len(qs) :
                        p \in Range(qs[n]) /\ \A m \in 1..(n - 1) : p \notin Range(qs[m])
FirstPlace(q, p) == CHOOSE k \in 1..Len(q) : q[k] = p /\ \A m \in 1..(k - 1) : q[m] # p
TriedBefore(qs, a, b) ==
    \/ FirstList(qs, a) < FirstList(qs, b)
    \/ /\ FirstList(qs, a) = FirstList(qs, b)
       /\ FirstPlace(qs[FirstList(qs, a)], a) < FirstPlace(qs[FirstList(qs, a)], b)
InOrder(qs, P) ==
    AsList([n \in 1..Cardinality(P) |->
                CHOOSE p \in P : Cardinality({q \in P : TriedBefore(qs, q, p)}) = n - 1])
Flatten(qs) ==
    IF Len(qs) = 0 THEN <<>>
    ELSE IF Len(qs) = 1 THEN qs[1]
    ELSE InOrder(qs, UNION {Range(qs[n]) : n \in 1..Len(qs)})

\* the longest run of characters of the class S from position i, at most hi
RunLength(S, hi, s, i) ==
    CHOOSE c \in 0..(Len(s) - i + 1) :
        /\ c <= hi
        /\ \A j \in 0..(c - 1) : s[i + j] \in S
        /\ c = hi \/ i + c > Len(s) \/ s[i + c] \notin S

\* a repeated class: greedy tries the longest run first, lazy the shortest
EndsClassRep(r, n, i) ==
    IF n < r.lo THEN <<>>
    ELSE AsList([k \in 1..(n - r.lo + 1) |->
                    IF r.lazy THEN i + r.lo + k - 1 ELSE i + n - k + 1])

\* Ends(r, s, i): the positions after a match of r against s from position
\* i, in the order a backtracking engine tries them (ECMAScript: the
\* alternatives from left to right, greedy one more first, lazy stop first)
RECURSIVE Ends(_, _, _)
RECURSIVE EndsCat(_, _, _)
RECURSIVE EndsRep(_, _, _)
RECURSIVE EndsMore(_, _, _, _)

\* the pieces rs one after the other, from each of the positions starts
EndsCat(rs, s, starts) ==
    IF rs = <<>> \/ starts = <<>> THEN starts
    ELSE EndsCat(Tail(rs), s,
                 Flatten(AsList([n \in 1..Len(starts) |-> Ends(Head(rs), s, starts[n])])))

\* one more repetition, whose first ended at one of the positions b
EndsMore(r, s, i, b) ==
    IF r.lo > 0
    THEN Flatten(AsList([n \in 1..Len(b) |-> EndsRep(Fewer(r), s, b[n])]))
    ELSE IF r.lazy
         THEN Flatten(<<<<i>>>> \o [n \in 1..Len(b) |-> EndsRep(Fewer(r), s, b[n])])
         ELSE Flatten([n \in 1..Len(b) |-> EndsRep(Fewer(r), s, b[n])] \o <<<<i>>>>)

EndsRep(r, s, i) ==
    IF r.hi = 0 THEN <<i>> ELSE EndsMore(r, s, i, Ends(r.r, s, i))

Ends(r, s, i) ==
    IF r.t = "class"
    THEN IF i <= Len(s) /\ s[i] \in r.set THEN <<i + 1>> ELSE <<>>
    ELSE IF r.t = "boundary"
         THEN IF AtWordBoundary(s, i) THEN <<i>> ELSE <<>>
    ELSE IF r.t = "seq" THEN EndsCat(r.rs, s, <<i>>)
    ELSE IF r.t = "alt" THEN Flatten(AsList([n \in 1..Len(r.rs) |-> Ends(r.rs[n], s, i)]))
    ELSE IF r.r.t = "class" THEN EndsClassRep(r, RunLength(r.r.set, r.hi, s, i), i)
    ELSE EndsRep(r, s, i)

First(q) == IF q = <<>> THEN 0 ELSE q[1]

\* Match(pattern, s, i): the position after the match of pattern against s
\* from position i, or 0 when there is none
Match(pattern, s, i) == First(Ends(pattern, s, i))

\* Match at every position of s
MatchEnds(pattern, s) == AsList([j \in 1..Len(s) |-> Match(pattern, s, j)])

-----------------------------------------------------------------------------
(* The patterns of maskSensitiveInfo *)

Sep3 == Cls({" ", ".", "-"})
SpHy == Cls({" ", "-"})
DotHy == Cls({".", "-"})
Sp == Lit(" ")
Hy == Lit("-")
PlusSign == Lit("+")
LPar == Lit("(")
RPar == Lit(")")
Slash == Lit("/")

\* /\b[A-Za-z0-9._%+-]+@[A-Za-z0-9.-]+\.[A-Z|a-z]{2,}\b/g
emailPattern ==
    Cat(<<Wb, Plus(Cls(Upper \cup Lower \cup Digits \cup {".", "_", "%", "+", "-"})),
          Lit("@"), Plus(Cls(Upper \cup Lower \cup Digits \cup {".", "-"})), Lit("."),
          Rep(Cls(Upper \cup Lower \cup {"|"}), 2, Unbounded), Wb>>)

R(a, b) == Cls({DigitChar(n) : n \in a..b})

creditCardPatterns == <<
    \* Visa: /\b4[0-9]{12}(?:[0-9]{3})?\b/g
    Cat(<<Wb, Lit("4"), Dn(12, 12), Opt(Dn(3, 3)), Wb>>),
    \* Mastercard
    Cat(<<Wb, Alt(<<Cat(<<Lit("5"), R(1, 5), Dn(2, 2)>>),
                    Cat(<<Word(<<"2", "2", "2">>), R(1, 9)>>),
                    Cat(<<Word(<<"2", "2">>), R(3, 9), D>>),
                    Cat(<<Lit("2"), R(3, 6), Dn(2, 2)>>),
                    Cat(<<Word(<<"2", "7">>), R(0, 1), D>>),
                    Word(<<"2", "7", "2", "0">>)>>), Dn(12, 12), Wb>>),
    \* American Express: /\b3[47][0-9]{13}\b/g
    Cat(<<Wb, Lit("3"), Cls({"4", "7"}), Dn(13, 13), Wb>>),
    \* Discover
    Cat(<<Wb, Alt(<<Word(<<"6", "0", "1", "1">>),
                    Cat(<<Word(<<"6", "5">>), Dn(2, 2)>>),
                    Cat(<<Word(<<"6", "4">>), R(4, 9), D>>),
                    Cat(<<Word(<<"6", "2", "2", "1">>), Dn(2, 2)>>),
                    Cat(<<Word(<<"6", "2", "2", "2">>), Dn(2, 2)>>),
                    Cat(<<Word(<<"6", "2", "2", "3">>), Dn(2, 2)>>),
                    Cat(<<Word(<<"6", "2", "2", "4">>), Dn(2, 2)>>),
                    Cat(<<Word(<<"6", "2", "2", "5">>), Dn(2, 2)>>),
                    Cat(<<Word(<<"6", "2", "2", "6">>), Dn(2, 2)>>),
                    Cat(<<Word(<<"6", "2", "2", "7">>), Dn(2, 2)>>),
                    Cat(<<Word(<<"6", "2", "2", "8">>), Dn(2, 2)>>),
                    Cat(<<Word(<<"6", "2", "2", "9">>), Dn(2, 2)>>)>>), Dn(10, 12), Wb>>),
    \* Generic: /\b(?:\d[ -]*?){13,16}\b/g
    Cat(<<Wb, Rep(Cat(<<D, RepLazy(SpHy, 0, Unbounded)>>), 13, 16), Wb>>) >>

\* (?:[ .-]?\d{1,14})*
MoreGroups == Star(Cat(<<Opt(Sep3), Dn(1, 14)>>))

phonePatterns == <<
    \* /\b\+\d{1,4}[ .-]?\d{1,14}(?:[ .-]?\d{1,14})*\b/g
    Cat(<<Wb, PlusSign, Dn(1, 4), Opt(Sep3), Dn(1, 14), MoreGroups, Wb>>),
    \* /\b\+\d{1,4}[ .-]?\(\d{1,4}\)[ .-]?\d{1,14}(?:[ .-]?\d{1,14})*\b/g
    Cat(<<Wb, PlusSign, Dn(1, 4), Opt(Sep3), LPar, Dn(1, 4), RPar, Opt(Sep3), Dn(1, 14),
          MoreGroups, Wb>>),
    \* /\b\+\d{1,4}[ .-]?\d{1,4}[ .-]?\d{1,14}(?:\/\d{1,4})+\b/g
    Cat(<<Wb, PlusSign, Dn(1, 4), Opt(Sep3), Dn(1, 4), Opt(Sep3), Dn(1, 14),
          Plus(Cat(<<Slash, Dn(1, 4)>>)), Wb>>),
    \* /\b1[ .-]?\(?\d{3}\)?[ .-]?\d{3}[ .-]?\d{4}\b/g
    Cat(<<Wb, Lit("1"), Opt(Sep3), Opt(LPar), Dn(3, 3), Opt(RPar), Opt(Sep3), Dn(3, 3),
          Opt(Sep3), Dn(4, 4), Wb>>),
    \* /\b\d{3}[.-]?\d{3}[.-]?\d{4}\b/g
    Cat(<<Wb, Dn(3, 3), Opt(DotHy), Dn(3, 3), Opt(DotHy), Dn(4, 4), Wb>>),
    \* /\b\d{1,4}[ ]\d{1,4}[ ]\d{1,4}[ ]\d{1,4}\b/g
    Cat(<<Wb, Dn(1, 4), Sp, Dn(1, 4), Sp, Dn(1, 4), Sp, Dn(1, 4), Wb>>),
    \* /\b\d{6,10}(?:\/\d{1,4}){1,5}\b/g
    Cat(<<Wb, Dn(6, 10), Rep(Cat(<<Slash, Dn(1, 4)>>), 1, 5), Wb>>),
    \* /\b\(\d{3}\)[ .-]?\d{3}[ .-]?\d{4}\b/g
    Cat(<<Wb, LPar, Dn(3, 3), RPar, Opt(Sep3), Dn(3, 3), Opt(Sep3), Dn(4, 4), Wb>>),
    \* /\b\+\d{1,4}[ ]\d{4}[ ]\d{6}\b/g
    Cat(<<Wb, PlusSign, Dn(1, 4), Sp, Dn(4, 4), Sp, Dn(6, 6), Wb>>),
    \* /\b\+\d{1,4}\(\d{3}\)\d{3}[-]?\d{4}\b/g
    Cat(<<Wb, PlusSign, Dn(1, 4), LPar, Dn(3, 3), RPar, Dn(3, 3), Opt(Hy), Dn(4, 4), Wb>>),
    \* /\b\d{3}[-]\d{3}[-]\d{4}\b/g
    Cat(<<Wb, Dn(3, 3), Hy, Dn(3, 3), Hy, Dn(4, 4), Wb>>),
    \* /\b\+\d{1,4}[ ]?\d{1,4}[ ]?\d{4}[ ]?\d{4}\b/g
    Cat(<<Wb, PlusSign, Dn(1, 4), Opt(Sp), Dn(1, 4), Opt(Sp), Dn(4, 4), Opt(Sp), Dn(4, 4), Wb>>),
    \* /\b\+[0-9]{10,15}\b/g
    Cat(<<Wb, PlusSign, Dn(10, 15), Wb>>),
    \* /\b\+\d{1,4}[ ]?\d{1,4}[ ]?\d{1,4}[ ]?\d{1,4}\b/g
    Cat(<<Wb, PlusSign, Dn(1, 4), Opt(Sp), Dn(1, 4), Opt(Sp), Dn(1, 4), Opt(Sp), Dn(1, 4), Wb>>),
    \* /\b\d{1,4}[ -]?\d{1,4}[ -]?\d{1,4}[ -]?\d{1,4}\b/g
    Cat(<<Wb, Dn(1, 4), Opt(SpHy), Dn(1, 4), Opt(SpHy), Dn(1, 4), Opt(SpHy), Dn(1, 4), Wb>>) >>

StreetTypes == Alt(<<WordI(<<"A", "v", "e", "n", "u", "e">>), WordI(<<"A", "v", "e">>), WordI(<<"S", "t", "r", "e", "e", "t">>), WordI(<<"S", "t">>),
                     WordI(<<"R", "o", "a", "d">>), WordI(<<"R", "d">>), WordI(<<"B", "o", "u", "l", "e", "v", "a", "r", "d">>), WordI(<<"B", "l", "v", "d">>),
                     WordI(<<"L", "a", "n", "e">>), WordI(<<"L", "n">>), WordI(<<"D", "r", "i", "v", "e">>), WordI(<<"D", "r">>),
                     WordI(<<"C", "o", "u", "r", "t">>), WordI(<<"C", "t">>), WordI(<<"P", "l", "a", "z", "a">>), WordI(<<"P", "l", "z">>),
                     WordI(<<"S", "q", "u", "a", "r", "e">>), WordI(<<"S", "q">>)>>)

UpperOrDigit == Cls(Upper \cup Digits)

addressPatterns == <<
    \* /\b\d+\s+[A-Za-z0-9\s,.-]+(?:Avenue|...|Sq)\b/gi
    Cat(<<Wb, Plus(D), Plus(Cls(Whitespace)),
          Plus(Cls(Upper \cup Lower \cup Digits \cup Whitespace \cup {",", ".", "-"})),
          StreetTypes, Wb>>),
    \* /\bP\.?O\.?\s*Box\s+\d+\b/gi
    Cat(<<Wb, WordI(<<"P">>), Opt(Lit(".")), WordI(<<"O">>), Opt(Lit(".")),
          Star(Cls(Whitespace)), WordI(<<"B", "o", "x">>), Plus(Cls(Whitespace)), Plus(D), Wb>>),
    \* /\b[A-Z]{1,2}\d[A-Z\d]? \d[A-Z]{2}\b/g
    Cat(<<Wb, Rep(Cls(Upper), 1, 2), D, Opt(UpperOrDigit), Sp, D, Rep(Cls(Upper), 2, 2), Wb>>),
    \* /\b\d{5}(?:-\d{4})?\b/g
    Cat(<<Wb, Dn(5, 5), Opt(Cat(<<Hy, Dn(4, 4)>>)), Wb>>) >>

\* /\b\d{3}[-]?\d{2}[-]?\d{4}\b/g
ssnPattern == Cat(<<Wb, Dn(3, 3), Opt(Hy), Dn(2, 2), Opt(Hy), Dn(4, 4), Wb>>)

EMAIL_REDACTED == <<"[", "E", "M", "A", "I", "L", " ", "R", "E", "D", "A", "C", "T", "E", "D", "]">>
CARD_NUMBER_REDACTED == <<"[", "C", "A", "R", "D", " ", "N", "U", "M", "B", "E", "R", " ", "R", "E", "D", "A", "C", "T", "E", "D", "]">>
PHONE_REDACTED == <<"[", "P", "H", "O", "N", "E", " ", "R", "E", "D", "A", "C", "T", "E", "D", "]">>
ADDRESS_REDACTED == <<"[", "A", "D", "D", "R", "E", "S", "S", " ", "R", "E", "D", "A", "C", "T", "E", "D", "]">>
SSN_REDACTED == <<"[", "S", "S", "N", " ", "R", "E", "D", "A", "C", "T", "E", "D", "]">>

-----------------------------------------------------------------------------
(* maskSensitiveInfo: the helpers and the passes *)

\* str.replace(/\D/g, '').length
DigitCount(str) == Cardinality({j \in 1..Len(str) : str[j] \in Digits})

\* isLikelyPhoneNumber: 7 to 15 digits
isLikelyPhoneNumber(str) == DigitCount(str) >= 7 /\ DigitCount(str) <= 15

OccursAt(match, fullText, i) ==
    /\ i + Len(match) - 1 <= Len(fullText)
    /\ \A j \in 1..Len(match) : fullText[i + j - 1] = match[j]

\* fullText.indexOf(match), counted from 1; 0 when match does not occur
IndexOf(match, fullText) ==
    IF \E i \in 1..Len(fullText) : OccursAt(match, fullText, i)
    THEN CHOOSE i \in 1..Len(fullText) :
            /\ OccursAt(match, fullText, i)
            /\ \A j \in 1..(i - 1) : ~OccursAt(match, fullText, j)
    ELSE 0

HttpScheme == <<"h", "t", "t", "p", ":", "/", "/">>
HttpsScheme == <<"h", "t", "t", "p", "s", ":", "/", "/">>

\* /https?:\/\/[^\s]*$/.test(textBefore)
urlPrefixRegex(textBefore) ==
    \E p \in 1..Len(textBefore) :
        \E scheme \in {HttpScheme, HttpsScheme} :
            /\ OccursAt(scheme, textBefore, p)
            /\ \A q \in (p + Len(scheme))..Len(textBefore) : textBefore[q] \notin Whitespace

\* isPartOfUrl(match, fullText): the text before the FIRST occurrence of match
\* in fullText ends with an unterminated http:// or https://
isPartOfUrl(match, fullText) ==
    IF IndexOf(match, fullText) = 0 THEN FALSE
    ELSE urlPrefixRegex(SubSeq(fullText, 1, IndexOf(match, fullText) - 1))

\* the replace callback putting the placeholder before the number it keeps
PhoneReplacement_KeepsNumber(match, string) ==
    IF isPartOfUrl(match, string) THEN match
    ELSE IF isLikelyPhoneNumber(match) THEN PHONE_REDACTED \o match ELSE match

\* the replace callback of the phone passes
PhoneReplacement(match, string) ==
    IF isPartOfUrl(match, string) THEN match
    ELSE IF isLikelyPhoneNumber(match) THEN PHONE_REDACTED ELSE match

\* where the next match starts, at or after position i; 0: nowhere
NextMatch(ends, i) ==
    IF \A j \in i..Len(ends) : ends[j] = 0 THEN 0
    ELSE CHOOSE j \in i..Len(ends) : ends[j] # 0 /\ \A k \in i..(j - 1) : ends[k] = 0

Replacement(placeholder, match, string) ==
    IF placeholder = PHONE_REDACTED THEN PhoneReplacement(match, string) ELSE placeholder

\* string.replace(pattern, ...) with the g flag: matches are searched from left
\* to right, each search starting where the last match ended; a phone pattern
\* replaces through the callback, any other by its placeholder
RECURSIVE ReplaceFrom(_, _, _, _)
RECURSIVE ReplaceAt(_, _, _, _, _)

ReplaceAt(placeholder, string, ends, i, j) ==
    IF j = 0 THEN SubSeq(string, i, Len(string))
    ELSE SubSeq(string, i, j - 1)
         \o Replacement(placeholder, SubSeq(string, j, ends[j] - 1), string)
         \o ReplaceFrom(placeholder, string, ends, ends[j])

ReplaceFrom(placeholder, string, ends, i) ==
    ReplaceAt(placeholder, string, ends, i, NextMatch(ends, i))

Replace(pattern, placeholder, string) ==
    ReplaceFrom(placeholder, string, MatchEnds(pattern, string), 1)

\* patterns.forEach(pattern => { maskedText = maskedText.replace(pattern, ...) })
RECURSIVE ReplaceEach(_, _, _)
ReplaceEach(patterns, placeholder, string) ==
    IF string = <<>> \/ patterns = <<>> THEN string
    ELSE ReplaceEach(Tail(patterns), placeholder, Replace(Head(patterns), placeholder, string))

\* Mask emails
MaskEmails(string) == Replace(emailPattern, EMAIL_REDACTED, string)

\* Mask credit cards
MaskCards(string) == ReplaceEach(creditCardPatterns, CARD_NUMBER_REDACTED, string)

\* Mask addresses
MaskAddresses(string) == ReplaceEach(addressPatterns, ADDRESS_REDACTED, string)

\* Mask SSNs
MaskSsns(string) == Replace(ssnPattern, SSN_REDACTED, string)

FalsyValues == { <<"0">>, <<"f", "a", "l", "s", "e">>, <<"n", "o">>, <<"o", "f", "f">> }
TruthyValues == { <<"1">>, <<"t", "r", "u", "e">>, <<"y", "e", "s">>, <<"o", "n">> }

\* isMaskingEnabled comparing v itself, without toLowerCase
isMaskingEnabled_CaseSensitive(setting) ==
    IF ~Truthy(setting) THEN TRUE
    ELSE IF setting \in FalsyValues THEN FALSE
    ELSE TRUE

\* isMaskingEnabled answering false to what it does not recognize
isMaskingEnabled_FailClosed(setting) ==
    IF ~Truthy(setting) THEN TRUE
    ELSE IF ToLowerCase(setting) \in FalsyValues THEN FALSE
    ELSE IF ToLowerCase(setting) \in TruthyValues THEN TRUE
    ELSE FALSE

\* isMaskingEnabled() with process.env.MASK_SENSITIVE_INFO = setting
isMaskingEnabled(setting) ==
    IF ~Truthy(setting) THEN TRUE
    ELSE IF ToLowerCase(setting) \in FalsyValues THEN FALSE
    ELSE IF ToLowerCase(setting) \in TruthyValues THEN TRUE
    ELSE TRUE

\* where string.replace finds its matches, from position i on
RECURSIVE MatchStarts(_, _)
RECURSIVE MatchStartsAt(_, _)
MatchStartsAt(ends, j) == IF j = 0 THEN {} ELSE {j} \cup MatchStarts(ends, ends[j])
MatchStarts(ends, i) == MatchStartsAt(ends, NextMatch(ends, i))

\* a call of the replace callback of a phone pattern: the match, its offset
\* (counted from 1), the string under replacement, and what the callback returned
Callback(string, j, match) ==
    [string |-> string, offset |-> j, match |-> match,
     returned |-> PhoneReplacement(match, string)]

CallbacksOf(string, ends) ==
    {Callback(string, j, SubSeq(string, j, ends[j] - 1)) : j \in MatchStarts(ends, 1)}

\* maskedText = maskedText.replace(pattern, callback) for one phone pattern,
\* whose matches in maskedText end at ends; the callbacks it makes are kept
PhoneReplace(r, ends) ==
    [maskedText |-> ReplaceFrom(PHONE_REDACTED, r.maskedText, ends, 1),
     callbacks |-> r.callbacks \cup CallbacksOf(r.maskedText, ends)]

\* phonePatterns.forEach(...): each pattern on what the one before left
RECURSIVE PhonePassFrom(_, _)
PhonePassFrom(patterns, r) ==
    IF r.maskedText = <<>> \/ patterns = <<>> THEN r
    ELSE PhonePassFrom(Tail(patterns),
                       PhoneReplace(r, MatchEnds(Head(patterns), r.maskedText)))

PhonePass(r) == PhonePassFrom(phonePatterns, r)

\* Mask phone numbers: one run of all the phone patterns, in order
MaskPhones(string) == PhonePass([maskedText |-> string, callbacks |-> {}])

\* the while loop: the phone patterns run again until a run changes nothing
RECURSIVE PhoneLoop(_, _, _)
PhoneLoop(previous, r, n) ==
    IF previous = r.maskedText
    THEN [maskedText |-> r.maskedText, callbacks |-> r.callbacks, iterations |-> n]
    ELSE PhoneLoop(r.maskedText, PhonePass(r), n + 1)

\* maskSensitiveInfo(text), pass by pass: what each pass left and what is returned
Masked(setting, input, emails, cards, phones, loop, addresses) ==
    [v |-> setting, enabled |-> TRUE, text |-> input, afterEmail |-> emails,
     afterCards |-> cards, afterPhones |-> phones.maskedText, afterLoop |-> loop.maskedText,
     iterations |-> loop.iterations, afterAddresses |-> addresses,
     maskedText |-> MaskSsns(addresses), phoneCallbacks |-> loop.callbacks,
     previousMaskedText |-> loop.maskedText]

MaskedAfterLoop(setting, input, emails, cards, phones, loop) ==
    Masked(setting, input, emails, cards, phones, loop, MaskAddresses(loop.maskedText))

MaskedAfterPhones(setting, input, emails, cards, phones) ==
    MaskedAfterLoop(setting, input, emails, cards, phones, PhoneLoop(<<>>, phones, 0))

MaskedAfterCards(setting, input, emails, cards) ==
    MaskedAfterPhones(setting, input, emails, cards, MaskPhones(cards))

MaskedAfterEmail(setting, input, emails) ==
    MaskedAfterCards(setting, input, emails, MaskCards(emails))

Unmasked(setting, input) ==
    [v |-> setting, enabled |-> FALSE, text |-> input, afterEmail |-> input,
     afterCards |-> input, afterPhones |-> input, afterLoop |-> input, iterations |-> 0,
     afterAddresses |-> input, maskedText |-> input, phoneCallbacks |-> {},
     previousMaskedText |-> UNDEFINED]

maskSensitiveInfo(input, setting) ==
    IF ~isMaskingEnabled(setting) THEN Unmasked(setting, input)
    ELSE MaskedAfterEmail(setting, input, MaskEmails(input))

-----------------------------------------------------------------------------
(* The inputs of the time-range resolver *)

Rel(amount, unitChar) == <<"-">> \o NatToChars(amount) \o <<unitChar>>

\* relative tokens: every unit in either case; magnitudes from none to
\* millennia (an instant before year 0) and past the range of a Date
RelativeTokens ==
    { Rel(15, "m"), Rel(2, "h"), Rel(2, "H"), Rel(30, "s"), Rel(0, "S"), Rel(3, "d"),
      Rel(1, "w"), Rel(1, "W"), Rel(2900000, "d"), Rel(3000000, "D"), Rel(420000, "w"),
      Rel(100100000, "d"), Rel(100100000, "w"), Rel(100100000, "M") }

AbsoluteTokens ==
    { <<"2", "0", "2", "5", "-", "0", "1", "-", "1", "0", "T", "0", "0", ":", "0", "0", ":", "0", "0", "Z">>,
      <<"2", "0", "2", "5", "-", "0", "1", "-", "0", "1", "T", "0", "0", ":", "0", "0", ":", "0", "0", "Z">>,
      <<"2", "0", "3", "0", "-", "0", "6", "-", "1", "5", "T", "0", "8", ":", "3", "0", ":", "0", "0", "+", "0", "5", ":", "3", "0">>,
      <<"2", "0", "2", "4", "-", "0", "2", "-", "2", "9">> }

MalformedTokens ==
    { <<"y", "e", "s", "t", "e", "r", "d", "a", "y">>,
      <<"-", "5", "y">>,
      <<"1", "5", "m">>,
      <<"-", "m">>,
      <<"2", "0", "2", "5", "-", "1", "3", "-", "0", "1", "T", "0", "0", ":", "0", "0", ":", "0", "0", "Z">> }

NowTokens == { <<"n", "o", "w">>, <<"N", "o", "W">> }

Tokens == {UNDEFINED, <<>>} \cup NowTokens \cup RelativeTokens \cup AbsoluteTokens
            \cup MalformedTokens

\* evaluation instants: 2025-09-10T12:34:56Z and 2026-01-01T00:00:05Z
Nows == { MakeMoment(DaysFromCivil(2025, 9, 10), 45296),
          MakeMoment(DaysFromCivil(2026, 1, 1), 5) }

\* UTC offsets of the process, in minutes
Offsets == {0, -300}

\* what the engine's Date constructor may answer for a non-ISO string with a digit
LegacyDates == { InvalidMoment, MakeMoment(DaysFromCivil(2001, 1, 1), 0) }

-----------------------------------------------------------------------------
(* The time-range resolver as a state machine: a caller hands in a range,  *)
(* parseTimeRange resolves it against the clock, the caller takes the      *)
(* result; then the next request.                                          *)

TimeInit ==
    /\ now = InvalidMoment
    /\ tz \in Offsets
    /\ legacy = InvalidMoment
    /\ from = UNDEFINED
    /\ to = UNDEFINED
    /\ resolvedFrom = UNDEFINED
    /\ resolvedTo = UNDEFINED
    /\ finalFrom = UNDEFINED
    /\ finalTo = UNDEFINED
    /\ windowRule = FALSE
    /\ called = "idle"

\* the tool handler receives { from, to } from its caller
Request(f, t) ==
    /\ called = "idle"
    /\ from' = f
    /\ to' = t
    /\ called' = "requested"
    /\ UNCHANGED <<now, tz, legacy, resolvedFrom, resolvedTo, finalFrom, finalTo, windowRule>>
    /\ UNCHANGED maskVars
    /\ UNCHANGED handlerVars

\* parseTimeRange(range), from `const now = moment()` to its return
ParseTimeRange(n, lg) ==
    /\ called = "requested"
    /\ LET r == parseTimeRange(from, to, n, tz, lg)
       IN  /\ now' = n
           /\ legacy' = lg
           /\ resolvedFrom' = r.resolvedFrom
           /\ resolvedTo' = r.resolvedTo
           /\ finalFrom' = r.from
           /\ finalTo' = r.to
           /\ windowRule' = r.windowRule
    /\ called' = "returned"
    /\ UNCHANGED <<tz, from, to>>
    /\ UNCHANGED maskVars
    /\ UNCHANGED handlerVars

\* the caller has taken the resolved range; nothing of the call is kept
Taken ==
    /\ called = "returned"
    /\ now' = InvalidMoment
    /\ legacy' = InvalidMoment
    /\ from' = UNDEFINED
    /\ to' = UNDEFINED
    /\ resolvedFrom' = UNDEFINED
    /\ resolvedTo' = UNDEFINED
    /\ finalFrom' = UNDEFINED
    /\ finalTo' = UNDEFINED
    /\ windowRule' = FALSE
    /\ called' = "idle"
    /\ UNCHANGED tz
    /\ UNCHANGED maskVars
    /\ UNCHANGED handlerVars

TimeNext ==
    \/ \E f \in Tokens, t \in Tokens : Request(f, t)
    \/ \E n \in Nows, lg \in LegacyDates : ParseTimeRange(n, lg)
    \/ Taken

-----------------------------------------------------------------------------
(* The inputs of the masker *)

\* values of MASK_SENSITIVE_INFO: unset, empty, falsy and truthy ones in
\* several cases, and an unrecognized one
EnvValues ==
    { UNDEFINED, <<>>,
      <<"0">>,
      <<"f", "a", "l", "s", "e">>,
      <<"F", "A", "L", "S", "E">>,
      <<"N", "o">>,
      <<"o", "f", "F">>,
      <<"1">>,
      <<"T", "r", "u", "e">>,
      <<"w", "e", "i", "r", "d">> }

\* pieces of text: URLs with and without a number, free-standing numbers, an
\* SSN, an email, a street, a word
Fragments ==
    << <<"h", "t", "t", "p", ":", "/", "/", "x", "/", "5", "5", "5", "1", "2", "3", "4">>,
       <<" ", "o", "r", " ", "5", "5", "5", "1", "2", "3", "4">>,
       <<"1", "2", "3", "-", "4", "5", "-", "6", "7", "8", "9">>,
       <<"h", "t", "t", "p", ":", "/", "/", "x", "/", "1", "2", "3", "4", "5", "/">>,
       <<"5", "5", "5", "1", "2", "3", "4">>,
       <<"a", "@", "b", ".", "c", "o">>,
       <<" ", "a", " ", "S", "t", " ">>,
       <<" ", "o", "r", " ">>,
       <<"+", "1", " ", "(", "5", "5", "5", ")", " ", "1", "2", "3", "-", "4", "5", "6", "7">>,
       <<"h", "t", "t", "p", ":", "/", "/", "x", "/">> >>

\* how many pieces a text is made of, at most
MaxFrags == 2

RECURSIVE Join(_)
Join(fs) == IF fs = <<>> THEN <<>> ELSE Fragments[Head(fs)] \o Join(Tail(fs))

Texts == {Join(fs) : fs \in UNION {[1..n -> 1..Len(Fragments)] : n \in 0..MaxFrags}}

\* the texts of the toggle's test cases: an email and a phone number; an SSN
ToggleTexts == { Fragments[6] \o Fragments[8] \o Fragments[9], Fragments[3] }

NoCall == [v |-> UNDEFINED, text |-> UNDEFINED, maskedText |-> UNDEFINED, called |-> FALSE]

-----------------------------------------------------------------------------
(* The masker as a state machine *)

MaskInit ==
    /\ env = UNDEFINED
    /\ v = UNDEFINED
    /\ enabled = TRUE
    /\ text = UNDEFINED
    /\ afterEmail = UNDEFINED
    /\ afterCards = UNDEFINED
    /\ afterPhones = UNDEFINED
    /\ afterLoop = UNDEFINED
    /\ iterations = 0
    /\ afterAddresses = UNDEFINED
    /\ maskedText = UNDEFINED
    /\ phoneCallbacks = {}
    /\ prior = NoCall
    /\ masking = "idle"
    /\ previousMaskedText = UNDEFINED

\* process.env.MASK_SENSITIVE_INFO is set (or deleted) between two calls
SetEnv(setting) ==
    /\ masking \in {"idle", "returned"}
    /\ env # setting
    /\ env' = setting
    /\ UNCHANGED <<v, enabled, text, afterEmail, afterCards, afterPhones, afterLoop,
                   iterations, afterAddresses, maskedText, phoneCallbacks, prior, masking,
                   previousMaskedText>>
    /\ UNCHANGED timeVars
    /\ UNCHANGED handlerVars

\* a caller hands a text to maskSensitiveInfo
CallMask(input) ==
    /\ masking = "idle"
    /\ text' = input
    /\ masking' = "called"
    /\ UNCHANGED <<env, v, enabled, afterEmail, afterCards, afterPhones, afterLoop,
                   iterations, afterAddresses, maskedText, phoneCallbacks, prior,
                   previousMaskedText>>
    /\ UNCHANGED timeVars
    /\ UNCHANGED handlerVars

Returns(r) ==
    /\ v' = r.v
    /\ enabled' = r.enabled
    /\ afterEmail' = r.afterEmail
    /\ afterCards' = r.afterCards
    /\ afterPhones' = r.afterPhones
    /\ afterLoop' = r.afterLoop
    /\ iterations' = r.iterations
    /\ afterAddresses' = r.afterAddresses
    /\ maskedText' = r.maskedText
    /\ phoneCallbacks' = r.phoneCallbacks
    /\ previousMaskedText' = r.previousMaskedText

\* maskSensitiveInfo(text), from the read of the toggle to the return
MaskSensitiveInfo ==
    /\ masking = "called"
    /\ Returns(maskSensitiveInfo(text, env))
    /\ masking' = "returned"
    /\ UNCHANGED <<env, text, prior>>
    /\ UNCHANGED timeVars
    /\ UNCHANGED handlerVars

\* the caller calls again; the call that has returned becomes the prior one
CallAgain(input) ==
    /\ masking = "returned"
    /\ prior' = [v |-> v, text |-> text, maskedText |-> maskedText, called |-> TRUE]
    /\ text' = input
    /\ masking' = "called"
    /\ UNCHANGED <<env, v, enabled, afterEmail, afterCards, afterPhones, afterLoop,
                   iterations, afterAddresses, maskedText, phoneCallbacks, previousMaskedText>>
    /\ UNCHANGED timeVars
    /\ UNCHANGED handlerVars

\* maskSensitiveInfo(maskSensitiveInfo(t)): the result is masked again
Reapply == CallAgain(maskedText)

\* the same text is masked once more
Repeat == CallAgain(text)

\* the caller has taken the result; nothing of the calls is kept but env
Done ==
    /\ masking = "returned"
    /\ v' = UNDEFINED
    /\ enabled' = TRUE
    /\ text' = UNDEFINED
    /\ afterEmail' = UNDEFINED
    /\ afterCards' = UNDEFINED
    /\ afterPhones' = UNDEFINED
    /\ afterLoop' = UNDEFINED
    /\ iterations' = 0
    /\ afterAddresses' = UNDEFINED
    /\ maskedText' = UNDEFINED
    /\ phoneCallbacks' = {}
    /\ prior' = NoCall
    /\ masking' = "idle"
    /\ previousMaskedText' = UNDEFINED
    /\ UNCHANGED env
    /\ UNCHANGED timeVars
    /\ UNCHANGED handlerVars

\* the masker under a toggle that changes between calls
ToggleNext ==
    \/ \E setting \in EnvValues : SetEnv(setting)
    \/ \E input \in ToggleTexts : CallMask(input)
    \/ MaskSensitiveInfo
    \/ Repeat
    \/ Done

\* the masker under the default toggle, on texts and on its own results
MaskNext ==
    \/ \E input \in Texts : CallMask(input)
    \/ MaskSensitiveInfo
    \/ Reapply
    \/ Done

\* a number whose groups the first international pattern takes together (16
\* digits, rejected) until the generic pattern has masked the last group
RescanText == <<"a", "+", "3", "4", "1", ".", "2", "6", "2", ".", "5", "4", ".", "1", "2", "3", "4", "5", "6", "7", "8">>

\* the texts of the loop: those of the masker, and the rescan text
LoopTexts == Texts \cup {RescanText}

-----------------------------------------------------------------------------
(* maskSensitiveInfo step by step through its while loop *)

\* the passes before the loop, with what each left
BeforeLoop(setting, emails, cards, phones) ==
    /\ v' = setting
    /\ enabled' = TRUE
    /\ afterEmail' = emails
    /\ afterCards' = cards
    /\ afterPhones' = phones.maskedText
    /\ afterLoop' = phones.maskedText
    /\ phoneCallbacks' = phones.callbacks

BeforeLoopAfterEmail(setting, emails, cards) ==
    BeforeLoop(setting, emails, cards, MaskPhones(cards))

\* from the read of the toggle (enabled) to `let previousMaskedText = ''`
EnterLoop ==
    /\ masking = "called"
    /\ isMaskingEnabled(env)
    /\ BeforeLoopAfterEmail(env, MaskEmails(text), MaskCards(MaskEmails(text)))
    /\ previousMaskedText' = <<>>
    /\ iterations' = 0
    /\ masking' = "looping"
    /\ UNCHANGED <<env, text, afterAddresses, maskedText, prior>>
    /\ UNCHANGED timeVars
    /\ UNCHANGED handlerVars

Iterated(r) ==
    /\ afterLoop' = r.maskedText
    /\ phoneCallbacks' = r.callbacks

\* the loop's condition holds: the body runs the phone patterns once more
Iterate ==
    /\ masking = "looping"
    /\ previousMaskedText # afterLoop
    /\ previousMaskedText' = afterLoop
    /\ Iterated(PhonePass([maskedText |-> afterLoop, callbacks |-> phoneCallbacks]))
    /\ iterations' = iterations + 1
    /\ UNCHANGED <<env, v, enabled, text, afterEmail, afterCards, afterPhones,
                   afterAddresses, maskedText, prior, masking>>
    /\ UNCHANGED timeVars
    /\ UNCHANGED handlerVars

AfterLoop(addresses) ==
    /\ afterAddresses' = addresses
    /\ maskedText' = MaskSsns(addresses)

\* the loop's condition fails: the address and SSN passes, and the return
ExitLoop ==
    /\ masking = "looping"
    /\ previousMaskedText = afterLoop
    /\ AfterLoop(MaskAddresses(afterLoop))
    /\ masking' = "returned"
    /\ UNCHANGED <<env, v, enabled, text, afterEmail, afterCards, afterPhones, afterLoop,
                   iterations, phoneCallbacks, prior, previousMaskedText>>
    /\ UNCHANGED timeVars
    /\ UNCHANGED handlerVars

\* the masker under the default toggle, its loop taken step by step
LoopNext ==
    \/ \E input \in LoopTexts : CallMask(input)
    \/ EnterLoop
    \/ Iterate
    \/ ExitLoop
    \/ Done

-----------------------------------------------------------------------------
(* The handler of the search_sumologic tool: it receives a request,        *)
(* resolves the time range, awaits the search, and returns the result      *)
(* as text, or the message of the error it caught.                         *)

NewLine == "\n"

\* query.replace(/\n/g, '')
RemoveNewLines(str) == SelectSeq(str, LAMBDA c : c # NewLine)

\* a string inside JSON text: quote, backslash and control characters escaped
JsonChar(c) ==
    IF c = "\"" THEN <<"\\", "\"">>
    ELSE IF c = "\\" THEN <<"\\", "\\">>
    ELSE IF c = NewLine THEN <<"\\", "n">>
    ELSE IF c = "\t" THEN <<"\\", "t">>
    ELSE <<c>>

RECURSIVE JsonChars(_)
JsonChars(str) == IF str = <<>> THEN <<>> ELSE JsonChar(Head(str)) \o JsonChars(Tail(str))

JsonString(str) == <<"\"">> \o JsonChars(str) \o <<"\"">>

\* an element of an array that is the array itself
Circular == <<"circular">>

CircularReference ==
    <<"[", "C", "i", "r", "c", "u", "l", "a", "r", " ",
      "R", "e", "f", "e", "r", "e", "n", "c", "e", "]">>

\* the replacer: an object seen before gives '[Circular Reference]'
Replacer(value) == IF value = Circular THEN CircularReference ELSE value

Indent == <<" ", " ">>

\* the elements of an array under the indent 2, each on a line of its own
RECURSIVE JsonItems(_)
JsonItems(items) ==
    IF items = <<>> THEN <<>>
    ELSE Indent \o JsonString(Replacer(Head(items)))
         \o (IF Len(items) = 1 THEN <<NewLine>> ELSE <<",", NewLine>> \o JsonItems(Tail(items)))

\* safeStringify(obj): JSON.stringify(obj, replacer, 2), for a string and
\* for an array of strings that may hold itself
safeStringify(obj) ==
    IF obj.type = "string" THEN JsonString(obj.value)
    ELSE IF obj.items = <<>> THEN <<"[", "]">>
    ELSE <<"[", NewLine>> \o JsonItems(obj.items) \o <<"]">>

ErrorPrefix == <<"E", "r", "r", "o", "r", ":", " ">>

\* the queries of the requests: one of them over two lines
Queries ==
    { <<"e", "r", "r", "o", "r">>,
      <<"_", "s", "r", "c", "=", "a", NewLine, "|", " ", "c", "o", "u", "n", "t">> }

\* the time tokens of the requests
HandlerTokens == { UNDEFINED, Rel(15, "m"), <<"n", "o", "w">> }

\* log messages: an email address, a phone number, a quoted word and a new line
Messages ==
    { Fragments[6],
      <<"c", "a", "l", "l", " ">> \o Fragments[5],
      <<"s", "a", "i", "d", " ", "\"", "o", "k", "\"", NewLine>> }

\* how many elements an array of the search results has at most
MaxItems == 2

\* what the search may resolve to: a string, or an array of strings
Payloads ==
    { [type |-> "string", value |-> m] : m \in Messages }
    \cup { [type |-> "array", items |-> items] :
             items \in UNION { [1..n -> Messages \cup {Circular}] : n \in 0..MaxItems } }

\* the messages of the errors the search may reject with
ErrorMessages == { <<"t", "i", "m", "e", "o", "u", "t">>, <<>> }

HandlerInit ==
    /\ request = UNDEFINED
    /\ cleanedQuery = UNDEFINED
    /\ parsedRange = UNDEFINED
    /\ results = UNDEFINED
    /\ response = UNDEFINED
    /\ calls = <<>>
    /\ handling = "idle"

\* async ({ query, from, to }) => ...
Receive(q, f, t) ==
    /\ handling = "idle"
    /\ request' = [query |-> q, from |-> f, to |-> t]
    /\ handling' = "received"
    /\ UNCHANGED <<cleanedQuery, parsedRange, results, response, calls>>
    /\ UNCHANGED <<timeVars, maskVars>>

\* what parseTimeRange hands back: { from, to }
Parsed(r) == [from |-> r.from, to |-> r.to]

\* the query is cleaned and the time range resolved
Resolve(n, lg) ==
    /\ handling = "received"
    /\ cleanedQuery' = RemoveNewLines(request.query)
    /\ parsedRange' = Parsed(parseTimeRange(request.from, request.to, n, tz, lg))
    /\ calls' = Append(calls, "parseTimeRange")
    /\ handling' = "parsed"
    /\ UNCHANGED <<request, results, response>>
    /\ UNCHANGED <<timeVars, maskVars>>

\* await search(sumoClient, cleanedQuery, parsed) resolves
SearchResolves(payload) ==
    /\ handling = "parsed"
    /\ results' = payload
    /\ calls' = Append(calls, "search")
    /\ handling' = "searched"
    /\ UNCHANGED <<request, cleanedQuery, parsedRange, response>>
    /\ UNCHANGED <<timeVars, maskVars>>

\* await search(...) rejects: the catch block returns the error's message
SearchRejects(message) ==
    /\ handling = "parsed"
    /\ response' = ErrorPrefix \o message
    /\ calls' = Append(calls, "search")
    /\ handling' = "responded"
    /\ UNCHANGED <<request, cleanedQuery, parsedRange, results>>
    /\ UNCHANGED <<timeVars, maskVars>>

\* return { content: [{ type: 'text', text: safeStringify(results) }] }
Respond ==
    /\ handling = "searched"
    /\ response' = safeStringify(results)
    /\ calls' = Append(calls, "safeStringify")
    /\ handling' = "responded"
    /\ UNCHANGED <<request, cleanedQuery, parsedRange, results>>
    /\ UNCHANGED <<timeVars, maskVars>>

\* the caller has the response; nothing of the request is kept
Responded ==
    /\ handling = "responded"
    /\ request' = UNDEFINED
    /\ cleanedQuery' = UNDEFINED
    /\ parsedRange' = UNDEFINED
    /\ results' = UNDEFINED
    /\ response' = UNDEFINED
    /\ calls' = <<>>
    /\ handling' = "idle"
    /\ UNCHANGED <<timeVars, maskVars>>

HandlerNext ==
    \/ \E q \in Queries, f \in HandlerTokens, t \in HandlerTokens : Receive(q, f, t)
    \/ \E n \in Nows, lg \in LegacyDates : Resolve(n, lg)
    \/ \E payload \in Payloads : SearchResolves(payload)
    \/ \E message \in ErrorMessages : SearchRejects(message)
    \/ Respond
    \/ Responded

Init == TimeInit /\ MaskInit /\ HandlerInit

Next == TimeNext \/ ToggleNext \/ MaskNext \/ LoopNext \/ HandlerNext

Spec == Init /\ [][Next]_vars

SpecTime == Init /\ [][TimeNext]_vars

SpecToggle == Init /\ [][ToggleNext]_vars

SpecMask == Init /\ [][MaskNext]_vars

SpecHandler == Init /\ [][HandlerNext]_vars

\* the steps of a call, each told by where the call stands and what it moves:
\* the passes before the loop, one run of the loop's body, the passes after it
Enters == masking = "called" /\ masking' = "looping"
Iterates == masking = "looping" /\ previousMaskedText # afterLoop /\ iterations' = iterations + 1
Exits == masking = "looping" /\ previousMaskedText = afterLoop /\ masking' = "returned"

\* a call is synchronous: once made it runs on, step after step
SpecLoop ==
    Init /\ [][LoopNext]_vars
         /\ WF_masking(Enters) /\ WF_iterations(Iterates) /\ WF_masking(Exits)

-----------------------------------------------------------------------------
(* What a returned string denotes, read back from its characters *)

\* a timestamp as format() writes one: an optional "-", four or more digits of
\* year, then -MM-DDTHH:mm:ss and the offset +hh:mm or -hh:mm, every field in range
TimestampBody(x) == IF x[1] = "-" THEN Tail(x) ELSE x

YearLen(x) == Len(TimestampBody(x)) - 21

IsTimestamp(x) ==
    /\ x # UNDEFINED
    /\ Len(x) >= 25
    /\ LET b == TimestampBody(x)
           n == YearLen(x)
       IN  /\ n >= 4
           /\ AllDigits(b, 1, n)
           /\ b[n + 1] = "-" /\ AllDigits(b, n + 2, n + 3) /\ b[n + 4] = "-"
           /\ AllDigits(b, n + 5, n + 6) /\ b[n + 7] = "T"
           /\ AllDigits(b, n + 8, n + 9) /\ b[n + 10] = ":"
           /\ AllDigits(b, n + 11, n + 12) /\ b[n + 13] = ":"
           /\ AllDigits(b, n + 14, n + 15) /\ b[n + 16] \in {"+", "-"}
           /\ AllDigits(b, n + 17, n + 18) /\ b[n + 19] = ":"
           /\ AllDigits(b, n + 20, n + 21)
           /\ Num2(b, n + 2) \in 1..12
           /\ Num2(b, n + 5) >= 1
           /\ Num2(b, n + 5) <= DaysInMonth((IF x[1] = "-" THEN -1 ELSE 1) * ParseInt(SubSeq(b, 1, n)),
                                            Num2(b, n + 2))
           /\ Num2(b, n + 8) <= 23 /\ Num2(b, n + 11) <= 59 /\ Num2(b, n + 14) <= 59

\* the instant a timestamp denotes: days since the epoch and seconds of the day, in UTC
Denote(x) ==
    LET b   == TimestampBody(x)
        n   == YearLen(x)
        y   == (IF x[1] = "-" THEN -1 ELSE 1) * ParseInt(SubSeq(b, 1, n))
        off == (IF b[n + 16] = "-" THEN -1 ELSE 1) * (Num2(b, n + 17) * 60 + Num2(b, n + 20))
        sec == Num2(b, n + 8) * 3600 + Num2(b, n + 11) * 60 + Num2(b, n + 14) - off * 60
    IN  [d |-> DaysFromCivil(y, Num2(b, n + 2), Num2(b, n + 5)) + (sec \div SecondsPerDay),
         s |-> sec % SecondsPerDay]

NotLater(i, j) == i.d < j.d \/ (i.d = j.d /\ i.s <= j.s)

UnitSeconds(unit) ==
    CASE unit = "seconds" -> 1 [] unit = "minutes" -> 60 [] unit = "hours" -> 3600
      [] unit = "days" -> 86400 [] unit = "weeks" -> 604800

\* the instant `amount` units after instant i
Later(i, amount, unit) ==
    LET days == IF unit = "weeks" THEN amount * 7
                ELSE IF unit = "days" THEN amount
                ELSE amount \div (SecondsPerDay \div UnitSeconds(unit))
        secs == IF unit \in {"weeks", "days"} THEN 0
                ELSE (amount % (SecondsPerDay \div UnitSeconds(unit))) * UnitSeconds(unit)
    IN  [d |-> i.d + days + ((i.s + secs) \div SecondsPerDay), s |-> (i.s + secs) % SecondsPerDay]

NowInstant == [d |-> now.d, s |-> now.s]

\* x is a timestamp of the evaluation instant
DenotesNow(x) == IsTimestamp(x) /\ Denote(x) = NowInstant

\* x is a timestamp of the instant `token` (a relative token) lies before now
DenotesNowMinus(x, token) ==
    /\ IsTimestamp(x)
    /\ Later(Denote(x), RelativeAmount(token), RelativeUnit(token)) = NowInstant

IsNowToken(token) == Truthy(token) /\ ToLowerCase(token) = <<"n", "o", "w">>

IsRelativeToken(token) == Truthy(token) /\ RELATIVE_REGEX(token)

IsParseableToken(token) == Truthy(token) /\ MomentParse(token, tz, legacy).valid

Returned == called = "returned"

-----------------------------------------------------------------------------
(* Claims about the time-range resolver *)

\* C1: whenever parseTimeRange returns both a from and a to, the instant the
\* returned from denotes is not later than the instant the returned to denotes
C1_ChronologicalOrder ==
    (Returned /\ IsTimestamp(finalFrom) /\ IsTimestamp(finalTo))
        => NotLater(Denote(finalFrom), Denote(finalTo))

\* what C2 expects of the resolved from: now, now minus N units, or the
\* instant of the absolute timestamp
C2_ResolvedFromIs(x) ==
    /\ IsTimestamp(x)
    /\ IF IsNowToken(from) THEN Denote(x) = NowInstant
       ELSE IF IsRelativeToken(from) THEN DenotesNowMinus(x, from)
       ELSE LET m == MomentParse(from, tz, legacy) IN Denote(x) = [d |-> m.d, s |-> m.s]

\* C2: with no to supplied and a from that is "now", a relative token or a
\* parseable timestamp, the result is to = now and from = the resolved from
\* (now minus N units for a relative token), the two exchanged at most by the
\* final swap
C2_ToDefaultsToNow ==
    (Returned /\ to = UNDEFINED
       /\ (IsNowToken(from) \/ IsRelativeToken(from) \/ IsParseableToken(from)))
        => \/ DenotesNow(finalTo) /\ C2_ResolvedFromIs(finalFrom)
           \/ DenotesNow(finalFrom) /\ C2_ResolvedFromIs(finalTo)

\* C3: with from omitted and a relative to, the result is to = now and
\* from = now minus N units
C3_WindowEndingNow ==
    (Returned /\ from = UNDEFINED /\ IsRelativeToken(to))
        => DenotesNow(finalTo) /\ DenotesNowMinus(finalFrom, to)

C5_AbsentOrTimestamp ==
    Returned =>
        /\ finalFrom = UNDEFINED \/ IsTimestamp(finalFrom)
        /\ finalTo = UNDEFINED \/ IsTimestamp(finalTo)
        /\ resolvedFrom = UNDEFINED \/ IsTimestamp(resolvedFrom)
        /\ resolvedTo = UNDEFINED \/ IsTimestamp(resolvedTo)
        /\ ~(IsNowToken(from) \/ IsRelativeToken(from) \/ IsParseableToken(from))
              => resolvedFrom = UNDEFINED
        /\ (from = UNDEFINED /\ to = UNDEFINED) => (finalFrom = UNDEFINED /\ finalTo = UNDEFINED)

-----------------------------------------------------------------------------
(* Claims about the masker *)

MaskReturned == masking = "returned"

\* the letters of a and b are the same but for their case
EqualsIgnoringCase(a, b) ==
    /\ Len(a) = Len(b)
    /\ \A i \in 1..Len(a) :
        \/ a[i] = b[i]
        \/ \E k \in 1..26 : {a[i], b[i]} = {UpperSeq[k], LowerSeq[k]}

IsSet(x) == x # UNDEFINED /\ x # <<>>

ExplicitlyDisabled(x) ==
    IsSet(x) /\ \E f \in {<<"0">>, <<"f", "a", "l", "s", "e">>, <<"n", "o">>, <<"o", "f", "f">>} :
                    EqualsIgnoringCase(x, f)

ExplicitlyEnabled(x) ==
    IsSet(x) /\ \E f \in {<<"1">>, <<"t", "r", "u", "e">>, <<"y", "e", "s">>, <<"o", "n">>} :
                    EqualsIgnoringCase(x, f)

Unrecognized(x) == IsSet(x) /\ ~ExplicitlyDisabled(x) /\ ~ExplicitlyEnabled(x)

\* the call before the current one was given the same text
SameTextBefore == prior.called /\ prior.text = text

\* C6: when MASK_SENSITIVE_INFO is one of 0, false, no, off in any case,
\* maskSensitiveInfo returns its input unchanged, character for character
C6_DisabledReturnsInput ==
    (MaskReturned /\ ExplicitlyDisabled(v)) => maskedText = text

\* a disabled call, the value not in lower case, on a text that an enabled
\* call before it has changed
C6_Witness ==
    /\ MaskReturned
    /\ ExplicitlyDisabled(v)
    /\ v \notin FalsyValues
    /\ SameTextBefore
    /\ prior.maskedText # text
    /\ maskedText = text

\* C7: isMaskingEnabled is false only for the explicit falsy values and true
\* for every other value (unset, empty, truthy, unrecognized), and under an
\* unrecognized value maskSensitiveInfo returns for a text exactly what it
\* returns for it under an explicitly enabled value
C7_FailsOpen ==
    MaskReturned =>
        /\ enabled = ~ExplicitlyDisabled(v)
        /\ (SameTextBefore /\ ExplicitlyEnabled(prior.v) /\ Unrecognized(v))
              => maskedText = prior.maskedText

\* a call under an unrecognized value that masks, after a call on the same
\* text under an explicitly enabled value
C7_Witness ==
    /\ MaskReturned
    /\ SameTextBefore
    /\ ExplicitlyEnabled(prior.v)
    /\ Unrecognized(v)
    /\ enabled
    /\ maskedText # text

\* C8: for a fixed toggle state, maskSensitiveInfo applied to its own result
\* returns that result unchanged
C8_Idempotent ==
    (MaskReturned /\ prior.called /\ text = prior.maskedText /\ v = prior.v)
        => maskedText = text

\* the text before position i ends with http:// or https:// and no whitespace after it
InUrlAt(string, i) == urlPrefixRegex(SubSeq(string, 1, i - 1))

\* C9: every phone candidate is left untouched when the text up to its own
\* position ends with an unterminated http:// or https://, and is otherwise
\* replaced by [PHONE REDACTED] when it has 7 to 15 digits
C9_DecidedPerOccurrence ==
    MaskReturned =>
        \A c \in phoneCallbacks :
            /\ InUrlAt(c.string, c.offset) => c.returned = c.match
            /\ (~InUrlAt(c.string, c.offset) /\ DigitCount(c.match) \in 7..15)
                  => c.returned = PHONE_REDACTED

\* how often the string part occurs in the string whole
Occurrences(part, whole) == Cardinality({i \in 1..Len(whole) : OccursAt(part, whole, i)})

\* the free-standing SSN shaped substrings of a string, found from left to right
SsnShaped(string) == MatchStarts(MatchEnds(ssnPattern, string), 1)

\* C10: with the toggle enabled, every free-standing SSN shaped substring of
\* the input is replaced in the output by [SSN REDACTED], the SSN pass coming
\* after the email, card, phone and address passes
C10_SsnPlaceholder ==
    (MaskReturned /\ enabled) =>
        /\ maskedText = MaskSsns(afterAddresses)
        /\ Occurrences(SSN_REDACTED, maskedText) >= Cardinality(SsnShaped(text))

\* the callbacks that one more run of the phone patterns makes on the loop's text
IterationCallbacks == PhonePass([maskedText |-> afterLoop, callbacks |-> {}]).callbacks

\* a step that runs the body of the re-scan loop once
IterationStep == masking = "looping" /\ iterations' = iterations + 1

\* the loop's condition previousMaskedText !== maskedText, after the step
LoopGoesOn == previousMaskedText' # afterLoop'

\* C11: the phone re-scan loop reaches a fixed point and terminates. An
\* iteration that changes the text has replaced a digit-bearing match by
\* [PHONE REDACTED] and leaves strictly fewer digits; an iteration whose
\* callbacks all return their match changes nothing and is the last one; at
\* the fixed point the loop is left, and every call that enters the loop returns
C11_RescanReachesFixedPoint ==
    /\ [][IterationStep =>
            /\ afterLoop' # afterLoop =>
                  /\ \E c \in IterationCallbacks :
                        c.returned = PHONE_REDACTED /\ DigitCount(c.match) > 0
                  /\ DigitCount(afterLoop') < DigitCount(afterLoop)
                  /\ DigitCount(PHONE_REDACTED) = 0
            /\ (\A c \in IterationCallbacks : c.returned = c.match) =>
                  afterLoop' = afterLoop /\ ~LoopGoesOn]_vars
    /\ [][(masking = "looping" /\ previousMaskedText = afterLoop)
            => masking' \in {"looping", "returned"} /\ iterations' = iterations]_vars
    /\ (masking = "looping") ~> (masking = "returned")

\* the loop has run twice on a text: the first iteration masked a number that
\* the passes before it had left, the second changed nothing and ended the loop
C11_Witness ==
    /\ masking = "looping"
    /\ iterations = 2
    /\ DigitCount(afterLoop) < DigitCount(afterPhones)
    /\ previousMaskedText = afterLoop

\* the handler has returned the result of a search that resolved
Succeeded == handling = "responded" /\ calls[Len(calls)] = "safeStringify"

\* C12: a request is handled in the order resolve the time range, search,
\* serialize, mask, return: the text returned for a search that resolved is
\* what the masker makes of the serialized result
C12_MaskedBeforeReturn ==
    Succeeded =>
        /\ response = maskSensitiveInfo(safeStringify(results), env).maskedText
        /\ calls = <<"parseTimeRange", "search", "safeStringify", "maskSensitiveInfo">>

=============================================================================
